---- MODULE Spec2Model ----
(***************************************************************************)
(* IoTAlarm.ino: an ultrasonic perimeter alarm on an M5Stack.              *)
(*                                                                         *)
(* The main task runs setup() once and then loop() forever; loop() is      *)
(* RunAlarm() followed by Esp32MQTTClient_Check().  RunAlarm is modelled   *)
(* statement by statement (pc), because three other writers share its      *)
(* globals and take no lock that RunAlarm takes:                           *)
(*   - HandleInterruptStopAlarm, the button interrupt (its critical        *)
(*     section excludes other users of mux; RunAlarm never takes mux);     *)
(*   - DeviceMethodCallback and DeviceTwinCallback, which the IoT hub      *)
(*     client invokes on message arrival.                                  *)
(* Each of these handlers is one action that may fire at any pc after      *)
(* setup().                                                                *)
(***************************************************************************)
EXTENDS Integers, Sequences, FiniteSets, TLC

(***************************************************************************)
(* Bounds of the model.                                                    *)
(***************************************************************************)
\* Number of loop() iterations explored.
MaxCycles == 3

(***************************************************************************)
(* Program constants.                                                      *)
(***************************************************************************)
\* "distance < 70" in RunAlarm.
Threshold == 70
\* "millis() - send_interval_ms > 10000" in RunAlarm.
ReportInterval == 10000
\* "delay(100)" at the end of RunAlarm.
CycleDelay == 100
\* "int result = 200" and "result = 404" in DeviceMethodCallback.
MethodOk == 200
MethodNotFound == 404

\* The strings the program builds.
TriggeredMessage == "{\"alarm_status\":\"triggered\"}{\"status\":\"online\"}"
OnlineMessage == "{\"status\":\"online\"}"
OfflineMessage == "{\"status\":\"offline\"}"
ResponseMessage == "\"Successfully invoke device method\""

(***************************************************************************)
(* Unsigned machine integers.  millis() is a 32-bit counter and            *)
(* send_interval_ms a uint64_t whose upper 32 bits are always zero (it is  *)
(* only ever assigned millis()).  A 32-bit value is held as two 16-bit     *)
(* limbs [hi, lo], value hi * 2^16 + lo, and the arithmetic is done limb   *)
(* by limb with carry and borrow, so that wrap-around is the machine's.    *)
(***************************************************************************)
Limb == 2^16

U32(hi, lo) == [hi |-> hi, lo |-> lo]

\* x + d modulo 2^32, for 0 <= d < 2^30.
Add32(x, d) ==
  LET s == x.lo + d
  IN  U32((x.hi + (s \div Limb)) % Limb, s % Limb)

\* (a - b) modulo 2^64 > k, for a and b zero-extended 32-bit values and
\* 0 <= k < 2^16: the four limbs of the 64-bit difference, low to high.
Sub64Exceeds(a, b, k) ==
  LET t0 == a.lo - b.lo
      borrow0 == IF t0 < 0 THEN 1 ELSE 0
      t1 == a.hi - b.hi - borrow0
      borrow1 == IF t1 < 0 THEN 1 ELSE 0
      d0 == t0 % Limb
      d1 == t1 % Limb
      d2 == (0 - borrow1) % Limb
      d3 == d2
  IN  d3 > 0 \/ d2 > 0 \/ d1 > 0 \/ d0 > k

(***************************************************************************)
(* Inputs.                                                                 *)
(***************************************************************************)
\* Echo pulse widths in microseconds: objects at about 10, 60, 70 and 80 cm.
Durations == {600, 3550, 4130, 4720}

\* What pulseIn(ECHO_PIN, HIGH) can observe: a pulse of some width, or no
\* complete pulse within its timeout.
EchoOutcomes ==
  {[timeout |-> TRUE, micros |-> 0]} \cup
  {[timeout |-> FALSE, micros |-> d] : d \in Durations}

\* Arduino's pulseIn returns the pulse width, or 0 when it timed out.
pulseIn(echo) == IF echo.timeout THEN 0 ELSE echo.micros

\* Values of millis() when setup() returns: after delay(10) and one 500 ms
\* poll of the WiFi status, and after 12 s of connecting.
StartMillis == {U32(0, 510), U32(0, 12000)}

\* How long one loop() iteration takes, in ms: the delay(100) alone, or the
\* delay plus time spent blocked in the sensor, the speaker and the network.
CycleTimes == {CycleDelay, 6000}

\* Method names a remote caller can invoke.
MethodNames == {"stop", "ping", "Stop"}

\* Twin documents.  parses: json_buffer.parseObject succeeds; flat and
\* desired: what the document holds at Enable/Disable.value and at
\* desired.Enable/Disable.value.
FieldValues == {"absent", "true", "false"}
TwinDocs ==
  {[parses |-> FALSE, flat |-> "absent", desired |-> "absent"]} \cup
  {[parses |-> TRUE, flat |-> f, desired |-> d] : f \in FieldValues, d \in FieldValues}

VARIABLES
  pc,                  \* position of the main task
  alarm_is_triggered,  \* global, line 27
  alarm_is_enabled,    \* global, line 28
  has_iot_hub,         \* global, line 29
  send_interval_ms,    \* global, line 34
  distance,            \* local of RunAlarm, line 196 (-1: not in scope)
  millis,              \* the value millis() returns
  published,           \* messages handed to Esp32MQTTClient_SendEvent in this cycle
  actuator,            \* what the screen and speaker were last told
  \* observation only (never read by an action's guard or effect on the above)
  op,                  \* the last step: its name, input, result, and state found
  cycles,              \* loop() iterations started
  elapsed,             \* ms since setup() returned
  timed_out,           \* this cycle's echo timed out
  checked,             \* the alarm state when this cycle evaluated line 199
  transitions,         \* times this cycle switched alarm_is_triggered from false to true
  last_publish,        \* elapsed at the latest message handed to SendEvent (-1: none)
  last_update          \* elapsed at the latest twin update that reached line 138 (-1: none)

vars ==
  <<pc, alarm_is_triggered, alarm_is_enabled, has_iot_hub, send_interval_ms,
    distance, millis, published, actuator,
    op, cycles, elapsed, timed_out, checked, transitions, last_publish, last_update>>

flags == <<alarm_is_triggered, alarm_is_enabled>>
mainLocals == <<pc, distance, published, cycles, timed_out, checked, transitions>>
clock == <<millis, elapsed>>

(***************************************************************************)
(* The three alarm states of the specification, over the two flags.        *)
(***************************************************************************)
StateOf(triggered, enabled) ==
  IF ~enabled THEN "Disabled"
  ELSE IF triggered THEN "Triggered" ELSE "Armed"

AlarmState == StateOf(alarm_is_triggered, alarm_is_enabled)

\* What is recorded of a step of the main task, and of a handler (with the
\* alarm state it found).
Step(name, arg, out) == [name |-> name, arg |-> arg, out |-> out, before |-> "-"]
Handler(name, arg, out) ==
  [name |-> name, arg |-> arg, out |-> out, before |-> AlarmState]

(***************************************************************************)
(* Pure parts of the handlers.                                             *)
(***************************************************************************)
\* FindSensorDistance: "return duration*0.034/2", truncated to int.
FindSensorDistance(echo) == (pulseIn(echo) * 34) \div 2000

\* Line 199 with "<=" in place of "<".
ShouldTrigger_Inclusive(d, triggered, enabled) ==
  d <= Threshold /\ ~triggered /\ enabled

\* Line 199 without its !alarm_is_triggered conjunct.
ShouldTrigger_IgnoresTriggered(d, triggered, enabled) ==
  d < Threshold /\ enabled

\* The condition of line 199.
ShouldTrigger(d, triggered, enabled) ==
  d < Threshold /\ ~triggered /\ enabled

\* The condition of line 203, at counter value now.
IntervalElapsed(now, last) == Sub64Exceeds(now, last, ReportInterval)

\* Lines 207-211 with the two messages swapped.
HeartbeatMessage_Swapped(enabled) ==
  IF enabled THEN OfflineMessage ELSE OnlineMessage

\* The heartbeat text of lines 207-211.
HeartbeatMessage(enabled) == IF enabled THEN OnlineMessage ELSE OfflineMessage

\* SendMessageToAzure with a second Esp32MQTTClient_SendEvent when the first
\* returned false.
SendMessageToAzure_Retries(log, message, hub, sent) ==
  IF ~hub THEN log
  ELSE IF sent THEN Append(log, [message |-> message, sent |-> TRUE])
  ELSE Append(Append(log, [message |-> message, sent |-> FALSE]),
              [message |-> message, sent |-> TRUE])

\* SendMessageToAzure: the message reaches Esp32MQTTClient_SendEvent only
\* when has_iot_hub; sent is what SendEvent returned, which is only logged.
SendMessageToAzure(log, message, hub, sent) ==
  IF hub THEN Append(log, [message |-> message, sent |-> sent]) ELSE log

\* Lines 121-124 with the flat value taking precedence when both are there.
DecodeAlarmStatus_FlatFirst(doc) ==
  IF doc.parses /\ doc.flat # "absent"
  THEN doc.flat = "true"
  ELSE doc.parses /\ doc.desired = "true"

\* Lines 120-124 with ArduinoJson 5: a failed parse gives the invalid object,
\* whose members read as false / NULL; an absent member reads as false / NULL;
\* a present true or false is kept as its text, so it reads as a non-NULL
\* const char* and as the boolean it spells.
FlatStatus(doc) == doc.parses /\ doc.flat = "true"
DesiredPresent(doc) == doc.parses /\ doc.desired # "absent"
DecodeAlarmStatus(doc) ==
  IF DesiredPresent(doc) THEN doc.desired = "true" ELSE FlatStatus(doc)

\* Lines 130-134 without line 133.
ApplyAlarmStatus_KeepsTriggered(status, triggered, enabled) ==
  IF status THEN <<triggered, TRUE>> ELSE <<triggered, FALSE>>

\* Lines 126-134: the flags <<alarm_is_triggered, alarm_is_enabled>> after
\* applying alarm_status.
ApplyAlarmStatus(status, triggered, enabled) ==
  IF status THEN <<triggered, TRUE>> ELSE <<FALSE, FALSE>>

\* Lines 90-97 without line 96.
MethodResult_AlwaysOk(methodName) == MethodOk

\* Lines 90-97: the return value of DeviceMethodCallback.
MethodResult(methodName) ==
  IF methodName = "stop" THEN MethodOk ELSE MethodNotFound

\* Lines 92-93 with the strcmp test inverted.
MethodTriggered_Inverted(methodName, triggered) ==
  IF methodName # "stop" THEN FALSE ELSE triggered

\* Lines 92-93: alarm_is_triggered after the method.
MethodTriggered(methodName, triggered) ==
  IF methodName = "stop" THEN FALSE ELSE triggered

\* Lines 215-221: which screen and sound RunAlarm produces.
Render(triggered) == IF triggered THEN "triggered" ELSE "warning"

IsEvent(m) == m.message = TriggeredMessage
IsHeartbeat(m) == m.message \in {OnlineMessage, OfflineMessage}
Events(log) == Cardinality({i \in 1..Len(log) : IsEvent(log[i])})
Heartbeats(log) == Cardinality({i \in 1..Len(log) : IsHeartbeat(log[i])})

(***************************************************************************)
(* Initial state: the globals as the program image defines them.           *)
(***************************************************************************)
Init ==
  /\ pc = "setup"
  /\ alarm_is_triggered = FALSE
  /\ alarm_is_enabled = FALSE
  /\ has_iot_hub = FALSE
  /\ send_interval_ms = U32(0, 0)
  /\ distance = -1
  /\ millis = U32(0, 0)
  /\ published = <<>>
  /\ actuator = "none"
  /\ op = Step("boot", "-", "-")
  /\ cycles = 0
  /\ elapsed = 0
  /\ timed_out = FALSE
  /\ checked = "none"
  /\ transitions = 0
  /\ last_publish = -1
  /\ last_update = -1

(***************************************************************************)
(* The main task.                                                          *)
(***************************************************************************)
\* setup(): connects, sets has_iot_hub, registers the callbacks and the
\* interrupts.  It returns after an arbitrary time.
Setup ==
  /\ pc = "setup"
  /\ pc' = "sample"
  /\ has_iot_hub' = TRUE
  /\ \E m \in StartMillis : millis' = m
  /\ op' = Step("setup", "-", "-")
  /\ UNCHANGED <<flags, send_interval_ms, distance, published, actuator,
                 cycles, elapsed, timed_out, checked,
                 transitions, last_publish, last_update>>

\* Line 196: int distance = FindSensorDistance().
Sample ==
  /\ pc = "sample"
  /\ cycles < MaxCycles
  /\ \E echo \in EchoOutcomes :
       /\ distance' = FindSensorDistance(echo)
       /\ timed_out' = echo.timeout
       /\ op' = Step("Sample", echo, "-")
  /\ pc' = "check"
  /\ cycles' = cycles + 1
  /\ UNCHANGED <<flags, has_iot_hub, send_interval_ms, clock, published,
                 actuator, checked, transitions, last_publish, last_update>>

\* Line 199: the if.  The two flags are read in one step: between reading
\* alarm_is_triggered as false and reading alarm_is_enabled no other writer
\* can set alarm_is_triggered, so any interleaving of the two reads with the
\* handlers equals one with the handlers before or after both reads.
Check ==
  /\ pc = "check"
  /\ pc' = IF ShouldTrigger(distance, alarm_is_triggered, alarm_is_enabled)
           THEN "setTriggered" ELSE "interval"
  /\ checked' = AlarmState
  /\ op' = Step("Check", "-", "-")
  /\ UNCHANGED <<flags, has_iot_hub, send_interval_ms, distance, clock,
                 published, actuator, cycles, timed_out,
                 transitions, last_publish, last_update>>

\* Line 200: alarm_is_triggered = true.
SetTriggered ==
  /\ pc = "setTriggered"
  /\ pc' = "sendEvent"
  /\ alarm_is_triggered' = TRUE
  /\ transitions' = IF alarm_is_triggered THEN transitions ELSE transitions + 1
  /\ op' = Step("SetTriggered", "-", "-")
  /\ UNCHANGED <<alarm_is_enabled, has_iot_hub, send_interval_ms, distance,
                 clock, published, actuator, cycles, timed_out,
                 checked, last_publish, last_update>>

\* Lines 201-203 with "if" in place of "else if": the interval is tested
\* after the event too.
SendEvent_ThenTestsInterval ==
  /\ pc = "sendEvent"
  /\ pc' = "interval"
  /\ \E sent \in BOOLEAN :
       published' = SendMessageToAzure(published, TriggeredMessage, has_iot_hub, sent)
  /\ last_publish' = IF has_iot_hub THEN elapsed ELSE last_publish
  /\ op' = Step("SendEvent", "-", "-")
  /\ UNCHANGED <<flags, has_iot_hub, send_interval_ms, distance, clock,
                 actuator, cycles, timed_out, checked,
                 transitions, last_update>>

\* Lines 201-202: the trigger event; the else of line 203 is skipped.
SendEvent ==
  /\ pc = "sendEvent"
  /\ pc' = "render"
  /\ \E sent \in BOOLEAN :
       published' = SendMessageToAzure(published, TriggeredMessage, has_iot_hub, sent)
  /\ last_publish' = IF has_iot_hub THEN elapsed ELSE last_publish
  /\ op' = Step("SendEvent", "-", "-")
  /\ UNCHANGED <<flags, has_iot_hub, send_interval_ms, distance, clock,
                 actuator, cycles, timed_out, checked,
                 transitions, last_update>>

\* Line 203: else if (millis() - send_interval_ms > 10000).
TestInterval ==
  /\ pc = "interval"
  /\ pc' = IF IntervalElapsed(millis, send_interval_ms)
           THEN "heartbeat" ELSE "render"
  /\ op' = Step("TestInterval", "-", "-")
  /\ UNCHANGED <<flags, has_iot_hub, send_interval_ms, distance, clock,
                 published, actuator, cycles, timed_out, checked,
                 transitions, last_publish, last_update>>

\* Lines 207-212: the heartbeat.
SendHeartbeat ==
  /\ pc = "heartbeat"
  /\ pc' = "render"
  /\ \E sent \in BOOLEAN :
       published' = SendMessageToAzure(published,
                      HeartbeatMessage(alarm_is_enabled), has_iot_hub, sent)
  /\ last_publish' = IF has_iot_hub THEN elapsed ELSE last_publish
  /\ op' = Step("SendHeartbeat", "-", "-")
  /\ UNCHANGED <<flags, has_iot_hub, send_interval_ms, distance, clock,
                 actuator, cycles, timed_out, checked,
                 transitions, last_update>>

\* Lines 215-221: the screen and the ring.
Display ==
  /\ pc = "render"
  /\ pc' = "delay"
  /\ actuator' = Render(alarm_is_triggered)
  /\ op' = Step("Display", "-", "-")
  /\ UNCHANGED <<flags, has_iot_hub, send_interval_ms, distance, clock,
                 published, cycles, timed_out, checked,
                 transitions, last_publish, last_update>>

\* Line 223 and the rest of loop(): delay(100), return, Esp32MQTTClient_Check().
\* The time the whole iteration took is added here, and RunAlarm's locals
\* (with what is recorded about the iteration) go out of scope.
EndCycle ==
  /\ pc = "delay"
  /\ pc' = "sample"
  /\ distance' = -1
  /\ timed_out' = FALSE
  /\ published' = <<>>
  /\ checked' = "none"
  /\ transitions' = 0
  /\ \E t \in CycleTimes :
       /\ millis' = Add32(millis, t)
       /\ elapsed' = elapsed + t
  /\ op' = Step("EndCycle", "-", "-")
  /\ UNCHANGED <<flags, has_iot_hub, send_interval_ms, actuator, cycles,
                 last_publish, last_update>>

(***************************************************************************)
(* The asynchronous handlers.                                              *)
(***************************************************************************)
\* Lines 44-52.
HandleInterruptStopAlarm ==
  /\ pc # "setup"
  /\ alarm_is_triggered' = FALSE
  /\ op' = Handler("HandleInterruptStopAlarm", "-", "-")
  /\ UNCHANGED <<alarm_is_enabled, has_iot_hub, send_interval_ms, clock,
                 mainLocals, actuator, last_publish, last_update>>

\* Lines 82-103.  out: the return value and the *response handed back.
DeviceMethodCallback ==
  /\ pc # "setup"
  /\ \E methodName \in MethodNames :
       /\ alarm_is_triggered' = MethodTriggered(methodName, alarm_is_triggered)
       /\ op' = Handler("DeviceMethodCallback", methodName,
                     [result |-> MethodResult(methodName),
                      response |-> ResponseMessage])
  /\ UNCHANGED <<alarm_is_enabled, has_iot_hub, send_interval_ms, clock,
                 mainLocals, actuator, last_publish, last_update>>

\* Lines 105-139 with line 138 run only when the update changed a flag.
DeviceTwinCallback_StampsOnChange ==
  /\ pc # "setup"
  /\ \E doc \in TwinDocs :
       LET after == ApplyAlarmStatus(DecodeAlarmStatus(doc),
                                     alarm_is_triggered, alarm_is_enabled)
           changed == after # <<alarm_is_triggered, alarm_is_enabled>>
       IN  /\ alarm_is_triggered' = after[1]
           /\ alarm_is_enabled' = after[2]
           /\ send_interval_ms' = IF changed THEN millis ELSE send_interval_ms
           /\ last_update' = IF changed THEN elapsed ELSE last_update
           /\ op' = Handler("DeviceTwinCallback", doc, "applied")
  /\ UNCHANGED <<has_iot_hub, clock, mainLocals, actuator, last_publish>>

\* Lines 105-139, when malloc returned a buffer.
DeviceTwinCallback ==
  /\ pc # "setup"
  /\ \E doc \in TwinDocs :
       LET after == ApplyAlarmStatus(DecodeAlarmStatus(doc),
                                     alarm_is_triggered, alarm_is_enabled)
       IN  /\ alarm_is_triggered' = after[1]
           /\ alarm_is_enabled' = after[2]
           /\ op' = Handler("DeviceTwinCallback", doc, "applied")
  /\ send_interval_ms' = millis
  /\ last_update' = elapsed
  /\ UNCHANGED <<has_iot_hub, clock, mainLocals, actuator, last_publish>>

\* Lines 114-115, when malloc returned NULL: the handler returns at once.
DeviceTwinCallbackNoMemory ==
  /\ pc # "setup"
  /\ op' = Handler("DeviceTwinCallback", "-", "no memory")
  /\ UNCHANGED <<flags, has_iot_hub, send_interval_ms, clock, mainLocals,
                 actuator, last_publish, last_update>>

Next ==
  \/ Setup
  \/ Sample
  \/ Check
  \/ SetTriggered
  \/ SendEvent
  \/ TestInterval
  \/ SendHeartbeat
  \/ Display
  \/ EndCycle
  \/ HandleInterruptStopAlarm
  \/ DeviceMethodCallback
  \/ DeviceTwinCallback
  \/ DeviceTwinCallbackNoMemory

Spec == Init /\ [][Next]_vars

(***************************************************************************)
(* The same program 6000 ms before its 32-bit millis() wraps: loop() has   *)
(* run for about 49.7 days, the alarm was never enabled, and no twin       *)
(* update or method call has arrived yet.  setup() is long over, so the    *)
(* steps are those of loop() and of the handlers.                          *)
(***************************************************************************)
LateMillis == U32(Limb - 1, Limb - 6000)

InitLongUptime ==
  /\ pc = "sample"
  /\ alarm_is_triggered = FALSE
  /\ alarm_is_enabled = FALSE
  /\ has_iot_hub = TRUE
  /\ send_interval_ms = U32(0, 0)
  /\ distance = -1
  /\ millis = LateMillis
  /\ published = <<>>
  /\ actuator = Render(FALSE)
  /\ op = Step("EndCycle", "-", "-")
  /\ cycles = 0
  /\ elapsed = 0
  /\ timed_out = FALSE
  /\ checked = "none"
  /\ transitions = 0
  /\ last_publish = -1
  /\ last_update = -1

NextLongUptime ==
  \/ Sample
  \/ Check
  \/ SetTriggered
  \/ SendEvent
  \/ TestInterval
  \/ SendHeartbeat
  \/ Display
  \/ EndCycle
  \/ HandleInterruptStopAlarm
  \/ DeviceMethodCallback
  \/ DeviceTwinCallback
  \/ DeviceTwinCallbackNoMemory

SpecLongUptime == InitLongUptime /\ [][NextLongUptime]_vars

(***************************************************************************)
(* Vocabulary of the properties.                                           *)
(***************************************************************************)
\* What a twin document carries for Enable/Disable: the delta value when it
\* has one, else the flat value, else nothing.
Carried(doc) ==
  IF ~doc.parses THEN "absent"
  ELSE IF doc.desired # "absent" THEN doc.desired ELSE doc.flat

\* The step o is a twin update that got as far as line 126.
IsApplied(o) == o.name = "DeviceTwinCallback" /\ o.out = "applied"

\* The step o is a stop request: the button, or the remote method "stop".
IsStop(o) ==
  \/ o.name = "HandleInterruptStopAlarm"
  \/ (o.name = "DeviceMethodCallback" /\ o.arg = "stop")

\* The main task is past the statements of this iteration that publish.
PastPublishing == pc \in {"render", "delay"}

\* A counter value as a number, for counters that stay far below 2^31.
Value32(x) == x.hi * Limb + x.lo

\* The message handed to Esp32MQTTClient_SendEvent last in this iteration.
LastPublished(log) == log[Len(log)].message

(***************************************************************************)
(* Properties.                                                             *)
(***************************************************************************)
\* C1: the alarm enters Triggered only by line 200 of a main cycle, from
\* Armed and with a sampled distance below 70; and while the alarm is
\* Disabled line 200 does not run and no trigger event is published.
C1_TriggeredOnlyFromArmedAndNear ==
  [][ /\ (AlarmState # "Triggered" /\ AlarmState' = "Triggered") =>
           /\ op'.name = "SetTriggered"
           /\ AlarmState = "Armed"
           /\ distance < 70
      /\ (op'.name \in {"SetTriggered", "SendEvent"}) =>
           AlarmState # "Disabled"
    ]_vars

\* C2: a twin update that carries Enable/Disable = false and is applied
\* leaves alarm_is_enabled and alarm_is_triggered both false, whatever the
\* state it found.
C2_DisableClearsTriggered ==
  [][ (IsApplied(op') /\ Carried(op'.arg) = "false") =>
        (~alarm_is_enabled' /\ ~alarm_is_triggered')
    ]_vars

\* C2 witness: such an update found the alarm Triggered and left it Disabled.
C2_Witness ==
  /\ IsApplied(op)
  /\ Carried(op.arg) = "false"
  /\ op.before = "Triggered"
  /\ AlarmState = "Disabled"
  /\ ~alarm_is_triggered

\* C3: in every reachable state, alarm_is_triggered implies alarm_is_enabled.
C3_TriggeredImpliesEnabled == alarm_is_triggered => alarm_is_enabled

\* C4: a cycle publishes exactly one trigger event for each switch of
\* alarm_is_triggered from false to true that it makes (at most one), and a
\* cycle that found the alarm already Triggered publishes none.
C4_OneEventPerTransition ==
  /\ transitions <= 1
  /\ Events(published) <= transitions
  /\ PastPublishing => Events(published) = transitions
  /\ checked = "Triggered" => Events(published) = 0

\* C4 witness: a cycle that made the switch has published its one event.
C4_Witness ==
  /\ pc = "delay"
  /\ transitions = 1
  /\ Events(published) = 1
  /\ Len(published) = 1

\* C5: a heartbeat is published only when more than 10000 ms have passed
\* since the previous published message (heartbeat or trigger event).
C5_HeartbeatAtMostOncePerInterval ==
  [][ (op'.name = "SendHeartbeat" /\ last_publish >= 0) =>
        elapsed - last_publish > 10000
    ]_vars

\* C6: a stop request that finds the alarm Armed or Disabled changes neither
\* flag, and every stop request leaves the alarm Armed or Disabled, so that
\* a second one changes nothing more.
C6_StopIsNoOpUnlessTriggered ==
  [][ IsStop(op') =>
        /\ AlarmState' \in {"Armed", "Disabled"}
        /\ alarm_is_enabled' = alarm_is_enabled
        /\ AlarmState \in {"Armed", "Disabled"} => AlarmState' = AlarmState
    ]_vars

\* C6 witness: the button was pressed while the alarm was Armed, and it is
\* still Armed.
C6_Witness ==
  /\ op.name = "HandleInterruptStopAlarm"
  /\ op.before = "Armed"
  /\ AlarmState = "Armed"

\* C7: a cycle whose echo timed out does not switch alarm_is_triggered on
\* and publishes no trigger event.
C7_TimeoutIsNoIntrusion ==
  timed_out => (transitions = 0 /\ Events(published) = 0)

\* C8: a twin update that is applied but whose document does not parse, or
\* carries no Enable/Disable value, changes neither flag.
C8_UndecodableKeepsState ==
  [][ (IsApplied(op') /\ Carried(op'.arg) = "absent") =>
        (alarm_is_enabled' = alarm_is_enabled /\
         alarm_is_triggered' = alarm_is_triggered)
    ]_vars

\* C9: a method invocation always hands back the response payload; with the
\* name "stop" it returns 200, clears alarm_is_triggered and keeps
\* alarm_is_enabled; with any other name it returns 404 and changes neither
\* flag.
C9_MethodDispatch ==
  [][ (op'.name = "DeviceMethodCallback") =>
        /\ op'.out.response = "\"Successfully invoke device method\""
        /\ IF op'.arg = "stop"
           THEN /\ op'.out.result = 200
                /\ ~alarm_is_triggered'
                /\ alarm_is_enabled' = alarm_is_enabled
           ELSE /\ op'.out.result = 404
                /\ alarm_is_triggered' = alarm_is_triggered
                /\ alarm_is_enabled' = alarm_is_enabled
    ]_vars

\* C9 witness: "ping" found the alarm Triggered, returned 404 and left it
\* Triggered.
C9_Witness ==
  /\ op.name = "DeviceMethodCallback"
  /\ op.arg = "ping"
  /\ op.out.result = 404
  /\ op.before = "Triggered"
  /\ AlarmState = "Triggered"

\* C10: a cycle publishes at most one message, so never both a trigger
\* event and a heartbeat.
C10_AtMostOneMessagePerCycle ==
  /\ Len(published) <= 1
  /\ ~(Events(published) > 0 /\ Heartbeats(published) > 0)

\* C10 witness: a cycle has published the trigger event while the report
\* interval had run out, and published no heartbeat.
C10_Witness ==
  /\ pc = "delay"
  /\ Events(published) = 1
  /\ Heartbeats(published) = 0
  /\ IntervalElapsed(millis, send_interval_ms)

\* C11: a heartbeat is published only by lines 207-212; it says "online"
\* when the alarm is Armed or Triggered at that moment and "offline" when it
\* is Disabled; and the main cycle goes to those lines only when line 203
\* found millis() more than 10000 ms past send_interval_ms.
C11_HeartbeatReportsState ==
  [][ /\ (Heartbeats(published') > Heartbeats(published)) =>
           op'.name = "SendHeartbeat"
      /\ (op'.name = "SendHeartbeat") =>
           /\ pc = "heartbeat"
           /\ Heartbeats(published') = Heartbeats(published) + 1
           /\ LastPublished(published') =
                IF AlarmState \in {"Armed", "Triggered"}
                THEN "{\"status\":\"online\"}"
                ELSE "{\"status\":\"offline\"}"
      /\ (pc # "heartbeat" /\ pc' = "heartbeat") =>
           /\ op'.name = "TestInterval"
           /\ Value32(millis) - Value32(send_interval_ms) > 10000
    ]_vars

\* C11 witness: a cycle has published the "online" heartbeat of a Triggered
\* alarm, lines 203-208.
C11_Witness ==
  /\ op.name = "SendHeartbeat"
  /\ AlarmState = "Triggered"
  /\ Heartbeats(published) = 1
  /\ LastPublished(published) = "{\"status\":\"online\"}"
  /\ Value32(millis) - Value32(send_interval_ms) > 10000

\* C11 witness, the other message: the "offline" heartbeat of a Disabled
\* alarm.
C11_WitnessOffline ==
  /\ op.name = "SendHeartbeat"
  /\ AlarmState = "Disabled"
  /\ LastPublished(published) = "{\"status\":\"offline\"}"

\* C12: a twin update whose document carries both the flat
\* Enable/Disable.value and desired.Enable/Disable.value applies the desired
\* one, for each of the four combinations: with desired true the alarm is
\* enabled, with desired false it is disabled and not triggered.
C12_DesiredOverridesFlat ==
  [][ (/\ IsApplied(op')
       /\ op'.arg.parses
       /\ op'.arg.flat # "absent"
       /\ op'.arg.desired # "absent") =>
        IF op'.arg.desired = "true"
        THEN alarm_is_enabled'
        ELSE ~alarm_is_enabled' /\ ~alarm_is_triggered'
    ]_vars

\* C12 witness: flat true with desired false has disabled an Armed alarm.
C12_Witness ==
  /\ IsApplied(op)
  /\ op.arg.parses
  /\ op.arg.flat = "true"
  /\ op.arg.desired = "false"
  /\ op.before = "Armed"
  /\ AlarmState = "Disabled"

\* C12 witness, the opposite pair: flat false with desired true has enabled
\* a Disabled alarm.
C12_WitnessEnable ==
  /\ IsApplied(op)
  /\ op.arg.parses
  /\ op.arg.flat = "false"
  /\ op.arg.desired = "true"
  /\ op.before = "Disabled"
  /\ AlarmState = "Armed"

MidIteration ==
  pc \in {"check", "setTriggered", "sendEvent", "interval", "heartbeat", "render"}

\* C14: a button interrupt that fires while the main task is in the middle
\* of an iteration changes neither flag, so that the rest of the iteration
\* sees the alarm state it started with.
C14_InterruptDeferredToNextIteration ==
  [][ (op'.name = "HandleInterruptStopAlarm" /\ MidIteration) =>
        /\ alarm_is_triggered' = alarm_is_triggered
        /\ alarm_is_enabled' = alarm_is_enabled
    ]_vars

\* C15: every twin update that is applied and carries an Enable/Disable
\* value leaves send_interval_ms equal to the value of millis() at that
\* moment, whether the value is true or false and whether or not a flag
\* changed.
C15_UpdateStampsTime ==
  [][ (IsApplied(op') /\ Carried(op'.arg) # "absent") =>
        /\ send_interval_ms' = millis
        /\ millis' = millis
    ]_vars

\* C15 witness: an enabling update found the alarm already Armed, changed no
\* flag, and moved send_interval_ms from its earlier value to the current
\* time.
C15_Witness ==
  /\ IsApplied(op)
  /\ Carried(op.arg) = "true"
  /\ op.before = "Armed"
  /\ AlarmState = "Armed"
  /\ elapsed >= 6000
  /\ last_update = elapsed
  /\ send_interval_ms = millis

\* C16: a twin update that is applied and carries Enable/Disable = true
\* turns a Disabled alarm to Armed, never to Triggered, and leaves an Armed
\* or Triggered alarm as it is.
C16_EnableArmsOnly ==
  [][ (IsApplied(op') /\ Carried(op'.arg) = "true") =>
        AlarmState' = IF AlarmState = "Disabled" THEN "Armed" ELSE AlarmState
    ]_vars

\* C17: lines 201-202 hand the trigger event to Esp32MQTTClient_SendEvent
\* once and go on to line 215 without writing a flag or send_interval_ms,
\* whether the send succeeded or failed; so an iteration never holds more
\* than one trigger event, and an iteration that found the alarm Triggered
\* holds none.
C17_FailedPublishChangesNothing ==
  [][ /\ (op'.name = "SendEvent") =>
           /\ Len(published') = Len(published) + 1
           /\ LastPublished(published') =
                "{\"alarm_status\":\"triggered\"}{\"status\":\"online\"}"
           /\ alarm_is_triggered' = alarm_is_triggered
           /\ alarm_is_enabled' = alarm_is_enabled
           /\ send_interval_ms' = send_interval_ms
           /\ pc' = "render"
      /\ Events(published') <= 1
      /\ (checked' = "Triggered") => Events(published') = 0
    ]_vars

\* C17 witness: an iteration whose trigger event failed to send has reached
\* its end with the alarm Triggered, the ring on, and that one attempt made.
C17_Witness ==
  /\ pc = "delay"
  /\ Len(published) = 1
  /\ IsEvent(published[1])
  /\ ~published[1].sent
  /\ AlarmState = "Triggered"
  /\ actuator = "triggered"

\* C18: an iteration that has published the trigger event and has passed
\* lines 215-221 has put up the triggered screen and played the ring.
C18_EventCycleRings ==
  (pc = "delay" /\ Events(published) > 0) => actuator = "triggered"

\* C19: once a twin update has been applied, line 203 sends the main cycle
\* to the heartbeat only when more than 10000 ms have passed since the
\* latest such update, also when millis() has wrapped to 0 in between.
C19_NoHeartbeatSoonAfterUpdate ==
  [][ (pc = "interval" /\ pc' = "heartbeat" /\ last_update >= 0) =>
        elapsed - last_update > 10000
    ]_vars

====
